---------------------------- MODULE Spec2Model ----------------------------
(***************************************************************************)
(* A model of the drainage-topology core of weppcloud-wbt:                 *)
(*   - calculate_rotation_degrees   (whitebox-common/algorithms)           *)
(*   - FindOutlet::trace_flow_path  (hydro_analysis/find_outlet.rs)        *)
(*   - HillslopesTopaz::run         (hydro_analysis/hillslopes_topaz.rs)   *)
(*                                                                         *)
(* Cells are pairs <<row, col>> with 0-based rows and columns as in the    *)
(* source.  Rasters are functions from cells to integers.  Angles are      *)
(* integers counting micro-degrees (see Atan2).                            *)
(***************************************************************************)
EXTENDS Integers, Sequences, FiniteSets, TLC

VARIABLES
    tool,            \* which program this behaviour runs
    \* ---- calculate_rotation_degrees ----
    rot_in,          \* <<a_x, a_y, o_x, o_y, b_x, b_y>>
    rot_out,         \* <<the returned angle>> (micro-degrees), <<>> before the call
    \* ---- input rasters and arguments (both tools) ----
    rows, columns,   \* raster dimensions
    esri_style,      \* --esri_pntr
    pntr,            \* D8 pointer raster (raw pointer values)
    streams,         \* streams raster (> 0 is a stream cell)
    watershed,       \* watershed raster (1 inside, Nodata outside)
    chnjnt,          \* channel junction raster (HillslopesTopaz input)
    pour_point,      \* located pour point cell (HillslopesTopaz)
    \* ---- HillslopesTopaz::run ----
    phase,           \* position of run()
    err,             \* the Err(..) message run() returned, "" while none
    links,           \* Vec<Link>, 1-based here; link ids stay 0-based
    next_id,         \* Phase 3 counter
    queue,           \* Phase 3 VecDeque of link indices (0-based ids)
    last_pop,        \* the link id dequeued by the latest Phase 3 iteration, -1 if none
    subwta,          \* output raster
    scan,            \* Phase 5: row-major index of the next cell of the double loop
    fill_start,      \* Phase 5: (row, col) of the cell being flood filled
    current,         \* Phase 5: `current` of the while loop
    found_topaz_id,  \* Phase 5: `found_topaz_id`
    \* ---- FindOutlet::trace_flow_path ----
    use_mask,        \* ctx.mask.is_some()
    mode,            \* TraceStartMode
    trow, tcol,      \* `row`, `col`
    visited,         \* `visited`
    steps,           \* `steps`
    has_left_mask,   \* `has_left_mask`
    tresult,         \* "running" | "ok" | "err"
    treason,         \* the failure reason, "" while none
    outlet,          \* <<outlet_row, outlet_col>> of a success, NoCell otherwise
    decoded,         \* set of cells whose pointer the trace decoded to an offset and stepped from
    \* ---- FindOutlet::run ----
    run,             \* position of run(): which strategy is being tried
    requested,       \* requested_row_col: <<>> for None, <<cell>> for Some
    candidates,      \* `candidates` after the sort, as a sequence of cells
    next_cand,       \* index (0-based) of the next candidate of the loop
    start,           \* <<start_row, start_col>> of the trace in progress
    start_offset,    \* `offset` of find_nearest_valid_cell
    selected,        \* `selected`: <<>> for None, <<SelectedTrace>> for Some
    attempts,        \* the calls of trace_flow_path so far, with their results
    \* ---- both tools ----
    written          \* the output files written so far

vars == <<tool, rot_in, rot_out, rows, columns, esri_style, pntr, streams,
          watershed, chnjnt, pour_point, phase, err, links, next_id, queue,
          last_pop, subwta, scan, fill_start, current, found_topaz_id,
          use_mask, mode, trow, tcol, visited, steps, has_left_mask,
          tresult, treason, outlet, decoded,
          run, requested, candidates, next_cand, start, start_offset, selected,
          attempts, written>>

runVars   == <<run, requested, candidates, next_cand, start, start_offset, selected,
               attempts>>
rotVars   == <<rot_in, rot_out>>
gridVars  == <<rows, columns, esri_style, pntr, streams, watershed, chnjnt, pour_point>>
topazVars == <<phase, err, links, next_id, queue, last_pop, subwta, scan,
               fill_start, current, found_topaz_id>>
traceVars == <<use_mask, mode, trow, tcol, visited, steps, has_left_mask,
               tresult, treason, outlet, decoded>>

NoCell == <<-1, -1>>

(***************************************************************************)
(* Direction Codec                                                         *)
(***************************************************************************)

\* let dx = [1, 1, 1, 0, -1, -1, -1, 0];  (0-based index n)
dx(n) == <<1, 1, 1, 0, -1, -1, -1, 0>>[n + 1]

\* let dy = [-1, 0, 1, 1, 1, 0, -1, -1];
dy(n) == <<-1, 0, 1, 1, 1, 0, -1, -1>>[n + 1]

\* The 8 pointer codes of both encodings.
ValidCodes == {1, 2, 4, 8, 16, 32, 64, 128}

\* Length of the pntr_matches arrays ([..; 129]).
PntrMatchesLen == 129

\* Variant: the Whitebox entries whatever the encoding.
PntrTableWhitebox(esri, default, idx) ==
    CASE idx = 1 -> 0 [] idx = 2 -> 1 [] idx = 4 -> 2 [] idx = 8 -> 3
      [] idx = 16 -> 4 [] idx = 32 -> 5 [] idx = 64 -> 6 [] idx = 128 -> 7
      [] OTHER -> default

\* The entries both tools write into pntr_matches; `default` is the value the
\* array was created with and every other entry keeps.
PntrTable(esri, default, idx) ==
    IF ~esri
    THEN CASE idx = 1 -> 0 [] idx = 2 -> 1 [] idx = 4 -> 2 [] idx = 8 -> 3
           [] idx = 16 -> 4 [] idx = 32 -> 5 [] idx = 64 -> 6 [] idx = 128 -> 7
           [] OTHER -> default
    ELSE CASE idx = 1 -> 1 [] idx = 2 -> 2 [] idx = 4 -> 3 [] idx = 8 -> 4
           [] idx = 16 -> 5 [] idx = 32 -> 6 [] idx = 64 -> 7 [] idx = 128 -> 0
           [] OTHER -> default

\* FindOutlet: let mut pntr_matches: [i8; 129] = [0i8; 129];
pntr_matches_fo(esri, idx) == PntrTable(esri, 0, idx)

\* HillslopesTopaz: let mut pntr_matches: [usize; 129] = [8usize; 129];
pntr_matches_ht(esri, idx) == PntrTable(esri, 8, idx)

\* Variant: the pointer with which the centre cell flows to offset n.
outflowing_vals(esri, n) ==
    IF ~esri THEN <<1, 2, 4, 8, 16, 32, 64, 128>>[n + 1]
    ELSE <<2, 4, 8, 16, 32, 64, 128, 1>>[n + 1]

\* inflowing_vals[n]: the pointer a neighbour at offset n holds when it flows
\* into the centre cell.
inflowing_vals(esri, n) ==
    IF ~esri THEN <<16, 32, 64, 128, 1, 2, 4, 8>>[n + 1]
    ELSE <<8, 16, 32, 64, 128, 1, 2, 4>>[n + 1]

(***************************************************************************)
(* calculate_rotation_degrees                                              *)
(*                                                                         *)
(* f64 angles are represented in fixed point: the integer m stands for the *)
(* angle of m micro-degrees, so pi radians is the integer PI and the final *)
(* radians-to-degrees conversion (x * 180 / PI) leaves the integer as is.  *)
(***************************************************************************)

Micro == 1000000

PI == 180000000

\* (180 / pi) * 10^6: the micro-degrees of one radian.
RadMicro == 57295780

SeriesTerms == 8

\* Sum of the alternating arctangent series, in micro-degrees:
\* term_k = x^(2k+1) in micro-degrees of a radian, x = p/q.
RECURSIVE AtanSeries(_, _, _, _)
AtanSeries(term, p, q, k) ==
    IF k >= SeriesTerms \/ term = 0 THEN 0
    ELSE (IF k % 2 = 0 THEN 1 ELSE -1) * (term \div (2 * k + 1))
         + AtanSeries((term * p * p) \div (q * q), p, q, k + 1)

\* atan(p/q) for 0 <= p <= q, q > 0, in micro-degrees.  Arguments above 0.4
\* are reduced by atan(x) = 45 - atan((1 - x) / (1 + x)); 45 degrees is exact.
AtanFirstOctant(p, q) ==
    IF 5 * p <= 2 * q
    THEN AtanSeries((p * RadMicro) \div q, p, q, 0)
    ELSE 45 * Micro - AtanSeries(((q - p) * RadMicro) \div (q + p), q - p, q + p, 0)

\* atan of y/x for x, y >= 0, not both zero: 0 .. 90 degrees.
AtanFirstQuadrant(y, x) ==
    IF y <= x THEN AtanFirstOctant(y, x) ELSE 90 * Micro - AtanFirstOctant(x, y)

\* f64::atan2(y, x) on integer arguments: the angle of (x, y) from the positive
\* x axis, counter-clockwise positive, in (-180, 180] degrees; atan2(0, 0) = 0.
Atan2(y, x) ==
    IF x = 0 /\ y = 0 THEN 0
    ELSE IF y >= 0
         THEN (IF x >= 0 THEN AtanFirstQuadrant(y, x)
               ELSE PI - AtanFirstQuadrant(y, -x))
         ELSE (IF x >= 0 THEN -AtanFirstQuadrant(-y, x)
               ELSE -(PI - AtanFirstQuadrant(-y, -x)))

\* A plausible slip: the difference taken the other way round.
calculate_rotation_degrees_swapped(a_x, a_y, o_x, o_y, b_x, b_y) ==
    LET vec_a_x == a_x - o_x
        vec_a_y == a_y - o_y
        vec_b_x == b_x - o_x
        vec_b_y == b_y - o_y
    IN  IF (vec_a_x = 0 /\ vec_a_y = 0) \/ (vec_b_x = 0 /\ vec_b_y = 0) THEN 0
        ELSE LET d == Atan2(vec_a_y, vec_a_x) - Atan2(vec_b_y, vec_b_x)
             IN  IF d < 0 THEN d + 2 * PI ELSE d

calculate_rotation_degrees(a_x, a_y, o_x, o_y, b_x, b_y) ==
    LET vec_a_x == a_x - o_x
        vec_a_y == a_y - o_y
        vec_b_x == b_x - o_x
        vec_b_y == b_y - o_y
    IN  IF (vec_a_x = 0 /\ vec_a_y = 0) \/ (vec_b_x = 0 /\ vec_b_y = 0) THEN 0
        ELSE LET angle_a == Atan2(vec_a_y, vec_a_x)
                 angle_b == Atan2(vec_b_y, vec_b_x)
                 angle_diff_radians == angle_b - angle_a
             IN  IF angle_diff_radians < 0
                 THEN angle_diff_radians + 2 * PI
                 ELSE angle_diff_radians

(***************************************************************************)
(* Rasters                                                                 *)
(***************************************************************************)

\* The nodata value of the input rasters.
Nodata == -32768

Cells == (0 .. rows - 1) \X (0 .. columns - 1)

InBounds(r, c) == r >= 0 /\ r < rows /\ c >= 0 /\ c < columns

\* Row-major position of a cell and back (the `for row .. for col` loops).
CellIndex(cell) == cell[1] * columns + cell[2]
CellAt(i) == <<i \div columns, i % columns>>

\* stream_val != streams_nodata && stream_val > 0
IsStream(cell) == streams[cell] # Nodata /\ streams[cell] > 0

(***************************************************************************)
(* Input rasters of a run.  A terrain is a raster of flow directions given *)
(* as offset indices 0..7 (0 = NE, 1 = E, 2 = SE, 3 = S, 4 = SW, 5 = W,    *)
(* 6 = NW, 7 = N); the D8 pointer raster holds their codes in the chosen   *)
(* encoding.  The streams raster is what flows out of a set of channel     *)
(* heads; the junction raster is the StreamJunctions census of it.         *)
(***************************************************************************)

\* 4 x 3, draining along the right column to (3, 2).
TerrainA == << <<1, 2, 3>>,
               <<2, 2, 3>>,
               <<1, 1, 3>>,
               <<1, 1, 3>> >>

\* 4 x 3, draining from both sides to the middle column and down to (3, 1).
TerrainB == << <<2, 3, 4>>,
               <<1, 3, 5>>,
               <<1, 3, 4>>,
               <<1, 3, 5>> >>

Terrains == {TerrainA, TerrainB}

TerrainCells(t) == (0 .. Len(t) - 1) \X (0 .. Len(t[1]) - 1)

\* The cell at the foot of the terrain's main channel and the one above it.
MainChannel(t) == IF t = TerrainA THEN <<3, 2>> ELSE <<3, 1>>
PourCandidates(t) == {MainChannel(t), <<MainChannel(t)[1] - 1, MainChannel(t)[2]>>}

\* The pointer code of an offset index: the inverse of pntr_matches.
Encode(esri, dir) == IF ~esri THEN 2 ^ dir ELSE 2 ^ ((dir + 7) % 8)

TerrainNext(t, cell) ==
    LET d == t[cell[1] + 1][cell[2] + 1]
    IN  <<cell[1] + dy(d), cell[2] + dx(d)>>

RECURSIVE FlowPath(_, _, _)
FlowPath(t, cell, fuel) ==
    IF cell \notin TerrainCells(t) \/ fuel = 0 THEN {}
    ELSE {cell} \cup FlowPath(t, TerrainNext(t, cell), fuel - 1)

PntrOf(t, esri) ==
    [cell \in TerrainCells(t) |-> Encode(esri, t[cell[1] + 1][cell[2] + 1])]

StreamsOf(t, heads) ==
    LET wet == UNION {FlowPath(t, h, Cardinality(TerrainCells(t))) : h \in heads}
    IN  [cell \in TerrainCells(t) |-> IF cell \in wet THEN 1 ELSE 0]

SubsetsUpTo(S, k) == {X \in SUBSET S : Cardinality(X) <= k}

\* Watershed rasters: everything inside, or the last row outside.
WatershedOptions == {"all", "last_row_out"}

WatershedOf(t, opt) ==
    [cell \in TerrainCells(t) |->
        IF opt = "last_row_out" /\ cell[1] = Len(t) - 1 THEN Nodata ELSE 1]

(***************************************************************************)
(* Junction Census                                                         *)
(***************************************************************************)

\* StreamJunctions::run: the count of stream neighbours whose pointer flows
\* into a stream cell, the background value (nodata) elsewhere.  Reads outside
\* the raster return nodata.
StreamJunctionsOf(p, s, esri, cells) ==
    [cell \in cells |->
        IF s[cell] > 0
        THEN Cardinality({k \in 0 .. 7 :
                LET n == <<cell[1] + dy(k), cell[2] + dx(k)>>
                IN  /\ n \in cells
                    /\ s[n] > 0
                    /\ p[n] = inflowing_vals(esri, k)})
        ELSE Nodata]

\* FindOutlet::run, junction_counts: -1 on cells that are no stream cells.
junction_counts(cell) ==
    IF IsStream(cell)
    THEN Cardinality({n \in 0 .. 7 :
            LET nr == cell[1] + dy(n)
                nc == cell[2] + dx(n)
            IN  /\ InBounds(nr, nc)
                /\ IsStream(<<nr, nc>>)
                /\ pntr[<<nr, nc>>] # Nodata
                /\ pntr[<<nr, nc>>] = inflowing_vals(esri_style, n)})
    ELSE -1

\* FindOutlet::run, mask: 1 where the watershed raster is positive.
Mask(cell) == IF watershed[cell] # Nodata /\ watershed[cell] > 0 THEN 1 ELSE 0

\* Variant: a budget of one step per raster row.
max_steps_per_row == IF rows > 1 THEN rows ELSE 1

\* let max_steps = (rows * columns * 4).max(1)
max_steps == IF rows * columns * 4 < 1 THEN 1 ELSE rows * columns * 4

(***************************************************************************)
(* FindOutlet: trace_flow_path                                             *)
(***************************************************************************)

\* Variant: the visited set is never consulted.
NeverRevisits(cell, vis) == FALSE

\* !visited.insert((row, col)): the cell was visited before.
Revisits(cell, vis) == cell \in vis

\* Variant: any stream cell is accepted, whatever its junction count.
accept_any_junction(m, left, is_stream, junction_count) ==
    IF m = "requested" THEN is_stream
    ELSE left /\ is_stream

\* Variant: every stream cell is accepted at once.
accept_any_stream(m, left, is_stream, junction_count) == is_stream

\* Variant: a watershed candidate is accepted without having left the mask.
accept_inside_mask(m, left, is_stream, junction_count) ==
    is_stream /\ junction_count = 1

\* let accept_current = match params.mode { .. }
accept_current(m, left, is_stream, junction_count) ==
    IF m = "requested" THEN is_stream /\ junction_count = 1
    ELSE left /\ is_stream /\ junction_count = 1

\* Variant: a failure does not return; the trace stays where it is.
TraceFailStuck(reason, vis, stp, left, dec) ==
    UNCHANGED <<tresult, treason, outlet, visited, steps, has_left_mask, decoded,
                trow, tcol>>

\* return Err(TraceFailureData { reason, .. })
TraceFail(reason, vis, stp, left, dec) ==
    /\ tresult' = "err" /\ treason' = reason /\ outlet' = NoCell
    /\ visited' = vis /\ steps' = stp /\ has_left_mask' = left /\ decoded' = dec
    /\ UNCHANGED <<trow, tcol>>

\* return Ok(TraceSuccessData { outlet_row, outlet_col, steps_taken, .. })
TraceOk(cell, vis, stp, left, dec) ==
    /\ tresult' = "ok" /\ treason' = "" /\ outlet' = cell
    /\ visited' = vis /\ steps' = stp /\ has_left_mask' = left /\ decoded' = dec
    /\ UNCHANGED <<trow, tcol>>

\* The call and its check of the start cell.
TraceCall ==
    /\ tool = "find_outlet" /\ tresult = "called"
    /\ IF ~InBounds(trow, tcol)
       THEN TraceFail("start outside raster bounds", visited, steps, has_left_mask, decoded)
       ELSE /\ tresult' = "running"
            /\ UNCHANGED <<trow, tcol, visited, steps, has_left_mask, treason, outlet, decoded>>
    /\ UNCHANGED <<tool, written, rotVars, runVars, gridVars, topazVars, use_mask, mode>>

\* One iteration of the loop of trace_flow_path.
TraceStep ==
    /\ tool = "find_outlet" /\ tresult = "running"
    /\ LET cell == <<trow, tcol>>
           vis == visited \cup {cell}
           left1 == has_left_mask \/ (use_mask /\ Mask(cell) = 0)
           is_stream == IsStream(cell)
           junction_count == IF is_stream THEN junction_counts(cell) ELSE -1
           pointer == pntr[cell]
           dir == pntr_matches_fo(esri_style, pointer)
           nr == trow + dy(dir)
           nc == tcol + dx(dir)
           dec == decoded \cup {cell}
           exits == use_mask /\ Mask(cell) = 1 /\ Mask(<<nr, nc>>) = 0
           left3 == left1 \/ (use_mask /\ Mask(<<nr, nc>>) = 0)
       IN  IF Revisits(cell, visited)
           THEN TraceFail("loop", visited, steps, has_left_mask, decoded)
           ELSE IF accept_current(mode, left1, is_stream, junction_count)
           THEN TraceOk(cell, vis, steps, left1, decoded)
           ELSE IF pointer = Nodata \/ pointer <= 0
           THEN TraceFail("invalid pointer", vis, steps, left1, decoded)
           ELSE IF pointer >= PntrMatchesLen
           THEN TraceFail("pointer out of range", vis, steps, left1, decoded)
           ELSE IF dir < 0
           THEN TraceFail("unsupported pointer value", vis, steps, left1, decoded)
           ELSE IF ~InBounds(nr, nc)
           THEN (IF is_stream /\ junction_count = 1
                 THEN TraceOk(cell, vis, steps + 1, left1, dec)
                 ELSE TraceFail("raster edge", vis, steps + 1, left1, dec))
           ELSE IF exits /\ is_stream /\ junction_count = 1
           THEN TraceOk(cell, vis, steps + 1, left1, dec)
           ELSE IF /\ IsStream(<<nr, nc>>)
                   /\ junction_counts(<<nr, nc>>) = 1
                   /\ (mode = "requested" \/ left3)
           THEN /\ tresult' = "ok" /\ treason' = "" /\ outlet' = <<nr, nc>>
                /\ trow' = nr /\ tcol' = nc
                /\ visited' = vis /\ steps' = steps + 1
                /\ has_left_mask' = left3 /\ decoded' = dec
           ELSE IF steps + 1 >= max_steps
           THEN /\ tresult' = "err" /\ treason' = "exceeded maximum step count"
                /\ outlet' = NoCell
                /\ trow' = nr /\ tcol' = nc
                /\ visited' = vis /\ steps' = steps + 1
                /\ has_left_mask' = left3 /\ decoded' = dec
           ELSE /\ trow' = nr /\ tcol' = nc
                /\ visited' = vis /\ steps' = steps + 1
                /\ has_left_mask' = left3 /\ decoded' = dec
                /\ UNCHANGED <<tresult, treason, outlet>>
    /\ UNCHANGED <<tool, written, rotVars, runVars, gridVars, topazVars, use_mask, mode>>

(***************************************************************************)
(* FindOutlet::run: the start strategies                                   *)
(***************************************************************************)

\* fn clamp_index(value, max)
clamp_index(value, max) == IF value < 0 THEN 0 ELSE IF value > max THEN max ELSE value

\* Variant: no cell passes the test.
HoldsNoValidPointer(cell) == FALSE

\* The test of find_nearest_valid_cell: the cell holds a pointer the table decodes.
HoldsValidPointer(cell) ==
    /\ pntr[cell] # Nodata /\ pntr[cell] > 0
    /\ pntr[cell] < PntrMatchesLen
    /\ pntr_matches_fo(esri_style, pntr[cell]) >= 0

\* The in-bounds neighbours of a cell that are not in `seen`, in the order of
\* the offsets n = from .. 7.
RECURSIVE NewNeighbours(_, _, _)
NewNeighbours(cell, seen, from) ==
    IF from >= 8 THEN <<>>
    ELSE LET n == <<cell[1] + dy(from), cell[2] + dx(from)>>
         IN  IF InBounds(n[1], n[2]) /\ n \notin seen
             THEN <<n>> \o NewNeighbours(cell, seen \cup {n}, from + 1)
             ELSE NewNeighbours(cell, seen, from + 1)

\* The loop of find_nearest_valid_cell over its queue of <<cell, dist>>:
\* <<cell, dist>> of the first cell met that holds a valid pointer, <<>> for None.
RECURSIVE NearestValid(_, _)
NearestValid(todo, seen) ==
    IF todo = <<>> THEN <<>>
    ELSE LET cell == Head(todo)[1]
             dist == Head(todo)[2]
             more == NewNeighbours(cell, seen, 0)
         IN  IF HoldsValidPointer(cell) THEN <<cell, dist>>
             ELSE NearestValid(Tail(todo) \o [k \in 1 .. Len(more) |-> <<more[k], dist + 1>>],
                               seen \cup {more[k] : k \in 1 .. Len(more)})

\* fn find_nearest_valid_cell(row, col, ..)
find_nearest_valid_cell(row, col) ==
    LET start_row == clamp_index(row, rows - 1)
        start_col == clamp_index(col, columns - 1)
    IN  NearestValid(<<<<<<start_row, start_col>>, 0>>>>, {<<start_row, start_col>>})

\* A mask cell with a neighbour outside the raster or outside the mask.
IsBoundary(cell) ==
    /\ Mask(cell) = 1
    /\ \E n \in 0 .. 7 :
          \/ ~InBounds(cell[1] + dy(n), cell[2] + dx(n))
          \/ Mask(<<cell[1] + dy(n), cell[2] + dx(n)>>) = 0

\* The breadth-first distance field from the boundary cells over the mask
\* (lines 921-939), grown one ring at a time; -1 where it does not reach.
RECURSIVE GrowDistances(_, _, _)
GrowDistances(dist, ring, k) ==
    LET next == {cell \in Cells :
                    /\ Mask(cell) = 1 /\ dist[cell] = -1
                    /\ \E n \in 0 .. 7 : <<cell[1] - dy(n), cell[2] - dx(n)>> \in ring}
    IN  IF next = {} THEN dist
        ELSE GrowDistances([cell \in Cells |-> IF cell \in next THEN k + 1 ELSE dist[cell]],
                           next, k + 1)

distances ==
    IF ~use_mask THEN [cell \in Cells |-> -1]
    ELSE GrowDistances([cell \in Cells |-> IF IsBoundary(cell) THEN 0 ELSE -1],
                       {cell \in Cells : IsBoundary(cell)}, 0)

\* candidates.sort_by(|a, b| b.0.cmp(&a.0)): a stable sort by descending distance.
RECURSIVE InsertByDistance(_, _, _)
InsertByDistance(cell, sorted, dist) ==
    IF sorted = <<>> THEN <<cell>>
    ELSE IF dist[cell] > dist[Head(sorted)] THEN <<cell>> \o sorted
    ELSE <<Head(sorted)>> \o InsertByDistance(cell, Tail(sorted), dist)

\* Variant: the candidates stay in row-major order.
CandidatesUnsorted(i, dist) ==
    LET inside == {k \in 0 .. i : Mask(CellAt(k)) = 1}
        Pos(k) == Cardinality({j \in inside : j <= k})
    IN  [n \in 1 .. Cardinality(inside) |-> CellAt(CHOOSE k \in inside : Pos(k) = n)]

\* The mask cells of row-major index 0 .. i, sorted (lines 943-954).
RECURSIVE CandidatesUpTo(_, _)
CandidatesUpTo(i, dist) ==
    IF i < 0 THEN <<>>
    ELSE IF Mask(CellAt(i)) = 1
    THEN InsertByDistance(CellAt(i), CandidatesUpTo(i - 1, dist), dist)
    ELSE CandidatesUpTo(i - 1, dist)

\* candidates.len().min(512)
CandidateCap == 512

max_candidates ==
    IF use_mask
    THEN (IF Len(candidates) < CandidateCap THEN Len(candidates) ELSE CandidateCap)
    ELSE 0

\* The call trace_flow_path(row, col, &trace_ctx, &params).
CallTrace(cell, m) ==
    /\ start' = cell /\ mode' = m
    /\ trow' = cell[1] /\ tcol' = cell[2]
    /\ visited' = {} /\ steps' = 0 /\ has_left_mask' = FALSE
    /\ tresult' = "called" /\ treason' = "" /\ outlet' = NoCell /\ decoded' = {}

\* The record of a returned call, appended to the history of calls.
Attempted == Append(attempts, [mode |-> mode, start |-> start,
                               ok |-> tresult = "ok", outlet |-> outlet])

\* Some(SelectedTrace { .. })
Selected(rank) ==
    <<[outlet |-> outlet, steps_taken |-> steps, start |-> start,
       start_mode |-> mode, candidate_rank |-> rank,
       start_offset_cells |-> start_offset]>>

\* Lines 943-1035: the candidates are ranked; with a requested location the
\* nearest valid cell is looked up and its trace is called.
TryRequested ==
    /\ tool = "find_outlet" /\ run = "start"
    /\ candidates' = IF use_mask THEN CandidatesUpTo(rows * columns - 1, distances)
                     ELSE <<>>
    /\ IF requested = <<>>
       THEN /\ run' = "candidates"
            /\ UNCHANGED <<traceVars, start, start_offset>>
       ELSE LET req == <<clamp_index(requested[1][1], rows - 1),
                         clamp_index(requested[1][2], columns - 1)>>
                near == find_nearest_valid_cell(req[1], req[2])
            IN  IF near = <<>>
                THEN /\ run' = "candidates"
                     /\ UNCHANGED <<traceVars, start, start_offset>>
                ELSE /\ run' = "requested_trace"
                     /\ start_offset' = near[2]
                     /\ CallTrace(near[1], "requested")
                     /\ UNCHANGED use_mask
    /\ UNCHANGED <<tool, written, rotVars, gridVars, topazVars, requested, next_cand,
                   selected, attempts>>

\* Lines 1036-1060: the requested trace has returned.
RequestedReturned ==
    /\ tool = "find_outlet" /\ run = "requested_trace"
    /\ tresult \in {"ok", "err"}
    /\ attempts' = Attempted
    /\ IF tresult = "ok"
       THEN run' = "selected" /\ selected' = Selected(-1)
       ELSE run' = "candidates" /\ UNCHANGED selected
    /\ UNCHANGED <<tool, written, rotVars, gridVars, topazVars, traceVars, requested,
                   candidates, next_cand, start, start_offset>>

\* Lines 1072-1081 and 1110-1125: the next candidate's trace is called; with
\* no candidate left the run returns its error.
NextCandidate ==
    /\ tool = "find_outlet" /\ run = "candidates"
    /\ IF selected = <<>> /\ use_mask /\ next_cand < max_candidates
       THEN /\ run' = "candidate_trace"
            /\ start_offset' = 0
            /\ CallTrace(candidates[next_cand + 1], "watershed")
            /\ UNCHANGED use_mask
       ELSE /\ run' = "failed"
            /\ UNCHANGED <<traceVars, start, start_offset>>
    /\ UNCHANGED <<tool, written, rotVars, gridVars, topazVars, requested, candidates,
                   next_cand, selected, attempts>>

\* Lines 1081-1106: a candidate's trace has returned.
CandidateReturned ==
    /\ tool = "find_outlet" /\ run = "candidate_trace"
    /\ tresult \in {"ok", "err"}
    /\ attempts' = Attempted
    /\ IF tresult = "ok"
       THEN run' = "selected" /\ selected' = Selected(next_cand) /\ UNCHANGED next_cand
       ELSE run' = "candidates" /\ next_cand' = next_cand + 1 /\ UNCHANGED selected
    /\ UNCHANGED <<tool, written, rotVars, gridVars, topazVars, traceVars, requested,
                   candidates, start, start_offset>>

\* Variant: the GeoJSON file is written whether or not an outlet was selected.
WriteGeoJsonAlways ==
    /\ tool = "find_outlet" /\ run \in {"selected", "failed"}
    /\ run' = "written"
    /\ written' = written \cup {"outlet_geojson"}
    /\ UNCHANGED <<tool, rotVars, gridVars, topazVars, traceVars, requested,
                   candidates, next_cand, start, start_offset, selected, attempts>>

\* Lines 1127-1330: with an outlet selected, the GeoJSON feature is built
\* and written to the output file.
WriteGeoJson ==
    /\ tool = "find_outlet" /\ run = "selected"
    /\ run' = "written"
    /\ written' = written \cup {"outlet_geojson"}
    /\ UNCHANGED <<tool, rotVars, gridVars, topazVars, traceVars, requested,
                   candidates, next_cand, start, start_offset, selected, attempts>>

(***************************************************************************)
(* HillslopesTopaz::run                                                    *)
(***************************************************************************)

\* let low_value = f64::MIN;  (the background of the output raster)
LowValue == -2147483647

\* `x as usize` of a raster value: negative values saturate to 0.
AsUsize(x) == IF x < 0 THEN 0 ELSE x

\* Link::new()
NewLink ==
    [id |-> -1, topaz_id |-> 0, ds |-> NoCell, us |-> NoCell,
     inflow0_id |-> -1, inflow1_id |-> -1, inflow2_id |-> -1,
     is_headwater |-> FALSE, is_outlet |-> FALSE, path |-> <<>>]

\* links[i] for a 0-based link index i.
LinkAt(ls, i) == ls[i + 1]

\* Phase 0: the first error of the input validation, "" if there is none.
\* A pointer value beyond the table makes pntr_matches[val] panic.
ValidationError ==
    LET bad == {i \in 0 .. rows * columns - 1 :
                   /\ watershed[CellAt(i)] # Nodata
                   /\ \/ AsUsize(pntr[CellAt(i)]) >= PntrMatchesLen
                      \/ pntr_matches_ht(esri_style, AsUsize(pntr[CellAt(i)])) >= 8}
        first == CHOOSE i \in bad : \A j \in bad : i <= j
    IN  IF \E cell \in Cells : chnjnt[cell] # Nodata /\ chnjnt[cell] > 3
        THEN "chnjnt values must be 0, 1, 2, or 3"
        ELSE IF bad # {}
        THEN (IF AsUsize(pntr[CellAt(first)]) >= PntrMatchesLen
              THEN "panic: index out of bounds"
              ELSE "Invalid D8 pointer value")
        ELSE IF streams[pour_point] <= 0 \/ streams[pour_point] = Nodata
        THEN "Pour point must be on a stream cell"
        ELSE IF watershed[pour_point] <= 0
        THEN "Pour point must be within watershed"
        ELSE ""

\* The offset index of the pointer at a cell: pntr_matches[pntr as usize].
DirOf(cell) == pntr_matches_ht(esri_style, AsUsize(pntr[cell]))

\* Variant: the column offset taken the other way.
DownstreamMirrored(cell) == <<cell[1] + dy(DirOf(cell)), cell[2] - dx(DirOf(cell))>>

\* The cell the pointer at `cell` leads to.
Downstream(cell) == <<cell[1] + dy(DirOf(cell)), cell[2] + dx(DirOf(cell))>>

\* 1.1: headwaters, in row-major order.
IsHeadwater(cell) == chnjnt[cell] = 0 /\ watershed[cell] = 1

\* The loop of one headwater walk (lines 656-729), from the push of `current`
\* on.  st = [links, grid, err]; grid is link_id_grid.
RECURSIVE WalkDown(_, _, _, _)
WalkDown(st, link, cur, hw) ==
    LET link1 == [link EXCEPT !.path = Append(@, cur)]
    IN  IF st.grid[cur] # -1
        THEN (IF chnjnt[cur] < 2
              THEN [st EXCEPT !.err = "Current cell is not recognized as a junction"]
              ELSE [st EXCEPT !.links = Append(@, [link1 EXCEPT !.ds = cur])])
        ELSE
        LET grid1 == [st.grid EXCEPT ![cur] = link1.id]
        IN  IF cur = pour_point
            THEN [st EXCEPT !.grid = grid1,
                            !.links = Append(@, [link1 EXCEPT !.ds = cur, !.is_outlet = TRUE])]
            ELSE
            LET split == cur # hw /\ chnjnt[cur] >= 2
                links1 == IF split THEN Append(st.links, [link1 EXCEPT !.ds = cur])
                          ELSE st.links
                link2 == IF split
                         THEN [NewLink EXCEPT !.id = Len(links1), !.us = cur,
                                              !.path = <<cur>>, !.is_headwater = FALSE]
                         ELSE link1
                n == Downstream(cur)
                st1 == [st EXCEPT !.grid = grid1, !.links = links1]
            IN  IF ~InBounds(n[1], n[2])
                THEN [st1 EXCEPT !.err = "Pointer direction leads outside raster bounds"]
                ELSE IF watershed[n] # 1
                THEN [st1 EXCEPT !.err = "Pointer direction leads outside watershed"]
                ELSE WalkDown(st1, link2, n, hw)

\* Variant: only the first headwater is walked.
WalkHeadwatersOnce(st, i) ==
    LET heads == {k \in i .. rows * columns - 1 : IsHeadwater(CellAt(k))}
        first == CHOOSE k \in heads : \A j \in heads : k <= j
    IN  IF heads = {} THEN st
        ELSE WalkDown(st,
                      [NewLink EXCEPT !.id = Len(st.links), !.us = CellAt(first),
                                      !.is_headwater = TRUE],
                      CellAt(first), CellAt(first))

\* for hw in headwaters { .. }, taken from row-major index i on.
RECURSIVE WalkHeadwaters(_, _)
WalkHeadwaters(st, i) ==
    IF i >= rows * columns \/ st.err # "" THEN st
    ELSE IF ~IsHeadwater(CellAt(i)) THEN WalkHeadwaters(st, i + 1)
    ELSE IF st.grid[CellAt(i)] # -1
    THEN [st EXCEPT !.err = "Headwater cell is already part of a link"]
    ELSE WalkHeadwaters(
            WalkDown(st,
                     [NewLink EXCEPT !.id = Len(st.links), !.us = CellAt(i),
                                     !.is_headwater = TRUE],
                     CellAt(i), CellAt(i)),
            i + 1)

\* Phase 1.
LinksBuilt ==
    WalkHeadwaters([links |-> <<>>, grid |-> [cell \in Cells |-> -1], err |-> ""], 0)

\* Phase 2: the ids of the links whose downstream end is the upstream end of
\* links[i], in index order.
RECURSIVE InflowsFrom(_, _, _)
InflowsFrom(ls, us_end, j) ==
    IF j > Len(ls) THEN <<>>
    ELSE (IF ls[j].ds = us_end THEN <<ls[j].id>> ELSE <<>>)
         \o InflowsFrom(ls, us_end, j + 1)

InflowsResolved(ls) ==
    [i \in 1 .. Len(ls) |->
        IF ls[i].is_headwater
        THEN [ls[i] EXCEPT !.inflow0_id = -1, !.inflow1_id = -1, !.inflow2_id = -1]
        ELSE LET inflows == InflowsFrom(ls, ls[i].us, 1)
             IN  [ls[i] EXCEPT
                    !.inflow0_id = IF Len(inflows) > 0 THEN inflows[1] ELSE @,
                    !.inflow1_id = IF Len(inflows) > 1 THEN inflows[2] ELSE @,
                    !.inflow2_id = IF Len(inflows) > 2 THEN inflows[3] ELSE @]]

\* Variant: a fifth inflow is the first one refused.
MoreThanFourInflows(ls) ==
    \E i \in 1 .. Len(ls) :
        ~ls[i].is_headwater /\ Len(InflowsFrom(ls, ls[i].us, 1)) > 4

TooManyInflows(ls) ==
    \E i \in 1 .. Len(ls) :
        ~ls[i].is_headwater /\ Len(InflowsFrom(ls, ls[i].us, 1)) > 3

\* Phase 3: for i in 1..links.len() { if links[i].is_outlet { .. break } }
\* The result is the 0-based index, -1 if the loop finds none.
OutletSearch(ls) ==
    LET found == {i \in 1 .. Len(ls) - 1 : LinkAt(ls, i).is_outlet}
    IN  IF found = {} THEN -1 ELSE CHOOSE i \in found : \A j \in found : i <= j

\* The angle Phase 3 computes for an inflow of a link:
\* calculate_rotation_degrees(a = link.ds, o = link.us, b = inflow.us), each
\* point given as (row, -col).
InflowAngle(link, inflow) ==
    calculate_rotation_degrees(link.ds[1], -link.ds[2],
                               link.us[1], -link.us[2],
                               inflow.us[1], -inflow.us[2])

\* inflows.sort_by(|a, b| a.1.partial_cmp(&b.1).unwrap()): a stable sort of
\* <<id, angle>> pairs by angle.
RECURSIVE InsertByAngle(_, _)
InsertByAngle(x, sorted) ==
    IF sorted = <<>> THEN <<x>>
    ELSE IF x[2] < Head(sorted)[2] THEN <<x>> \o sorted
    ELSE <<Head(sorted)>> \o InsertByAngle(x, Tail(sorted))

RECURSIVE SortByAngle(_)
SortByAngle(seq) ==
    IF seq = <<>> THEN <<>>
    ELSE InsertByAngle(seq[Len(seq)], SortByAngle(SubSeq(seq, 1, Len(seq) - 1)))

\* Variant: the inflows taken in slot order, whatever their angles.
InflowOrderBySlot(ls, link) ==
    IF link.inflow2_id = -1 THEN <<link.inflow0_id, link.inflow1_id>>
    ELSE <<link.inflow0_id, link.inflow1_id, link.inflow2_id>>

\* The order in which a dequeued link's inflows are numbered and enqueued.
InflowOrder(ls, link) ==
    LET i0 == link.inflow0_id
        i1 == link.inflow1_id
        i2 == link.inflow2_id
        a0 == InflowAngle(link, LinkAt(ls, i0))
        a1 == InflowAngle(link, LinkAt(ls, i1))
    IN  IF i2 = -1
        THEN (IF a0 < a1 THEN <<i0, i1>> ELSE <<i1, i0>>)
        ELSE LET sorted == SortByAngle(<<<<i0, a0>>, <<i1, a1>>,
                                         <<i2, InflowAngle(link, LinkAt(ls, i2))>>>>)
             IN  <<sorted[1][1], sorted[2][1], sorted[3][1]>>

\* Variant: next is not advanced between the inflows.
NumberedWithoutStep(ls, order, next) ==
    [i \in 1 .. Len(ls) |->
        IF \E k \in 1 .. Len(order) : order[k] + 1 = i
        THEN [ls[i] EXCEPT !.topaz_id = next]
        ELSE ls[i]]

\* links[order[k]].topaz_id = next; next += 10, for each k in turn.
RECURSIVE Numbered(_, _, _)
Numbered(ls, order, next) ==
    IF order = <<>> THEN ls
    ELSE Numbered([ls EXCEPT ![Head(order) + 1].topaz_id = next], Tail(order), next + 10)

\* Phase 4: stamp the cells of one link's path, its downstream end excepted
\* unless the link is the outlet.
StampPath(grid, link) ==
    [cell \in DOMAIN grid |->
        IF /\ \E k \in 1 .. Len(link.path) : link.path[k] = cell
           /\ ~(cell = link.ds /\ ~link.is_outlet)
        THEN link.topaz_id
        ELSE grid[cell]]

\* for link in &links { .. }, from the 1-based position i on.
RECURSIVE StampLinks(_, _, _)
StampLinks(grid, ls, i) ==
    IF i > Len(ls) THEN [grid |-> grid, err |-> ""]
    ELSE IF ls[i].topaz_id <= 0 THEN [grid |-> grid, err |-> "Invalid TOPAZ ID"]
    ELSE StampLinks(StampPath(grid, ls[i]), ls, i + 1)

\* cross = ux * vy - uy * vx for flow down the channel u and flow into the
\* channel v, both given as offset indices.
Cross(cu, cv) == dx(cu) * dy(cv) - dy(cu) * dx(cv)

\* The colinear case (lines 1038-1071): the scan of the neighbours of the
\* channel cell n from offset i on, for the first one that flows into n and
\* has a positive junction count.  The result is that neighbour's offset
\* index, -1 if there is none, -2 if a neighbour's pointer indexes outside
\* pntr_matches or dy/dx (a panic).
RECURSIVE UpstreamScan(_, _)
UpstreamScan(n, i) ==
    IF i >= 8 THEN -1
    ELSE LET nn == <<n[1] + dy(i), n[2] + dx(i)>>
         IN  IF ~InBounds(nn[1], nn[2]) THEN UpstreamScan(n, i + 1)
             ELSE IF AsUsize(pntr[nn]) >= PntrMatchesLen \/ DirOf(nn) >= 8 THEN -2
             ELSE IF Downstream(nn) = n /\ chnjnt[nn] > 0 THEN DirOf(nn)
             ELSE UpstreamScan(n, i + 1)

\* Variant: the side labels counted upwards from the channel id.
SideLabelAbove(topaz_id, cross) ==
    IF cross > 0 THEN topaz_id + 2
    ELSE IF cross < 0 THEN topaz_id + 1
    ELSE 0

\* Variant: the two banks exchanged.
SideLabelSwapped(topaz_id, cross) ==
    IF cross > 0 THEN topaz_id - 1
    ELSE IF cross < 0 THEN topaz_id - 2
    ELSE 0

\* The side label of a channel id for a cross product; 0 when it is zero.
SideLabel(topaz_id, cross) ==
    IF cross > 0 THEN topaz_id - 2
    ELSE IF cross < 0 THEN topaz_id - 1
    ELSE 0

\* The value the labelled cell n yields for flow entering it by offset index
\* c (lines 991-1073): found_topaz_id, 0 if none, -1 for the
\* "Invalid hillslope ID" error, -2 for a panic.
LabelFrom(n, c) ==
    IF subwta[n] <= 0 THEN -1
    ELSE IF subwta[n] % 10 <= 3 THEN subwta[n]
    ELSE IF chnjnt[n] = 0 THEN subwta[n] - 3
    ELSE LET cross == Cross(DirOf(n), c)
         IN  IF cross # 0 THEN SideLabel(subwta[n], cross)
             ELSE LET c_up == UpstreamScan(n, 0)
                  IN  IF c_up = -2 THEN -2
                      ELSE IF c_up = -1 THEN 0
                      ELSE SideLabel(subwta[n], Cross(c_up, c))

\* Variant: the backtrack stamps every cell of the walk, the cell it ended on
\* included.
RECURSIVE BacktrackedOver(_, _, _, _)
BacktrackedOver(grid, from, to, value) ==
    IF from = to THEN [grid EXCEPT ![from] = value]
    ELSE BacktrackedOver([grid EXCEPT ![from] = value], Downstream(from), to, value)

\* The backtrack loop (lines 1080-1089): stamp the unstamped cells from
\* `from` down to, not including, `to`.
RECURSIVE Backtracked(_, _, _, _)
Backtracked(grid, from, to, value) ==
    IF from = to THEN grid
    ELSE Backtracked(IF grid[from] = LowValue THEN [grid EXCEPT ![from] = value] ELSE grid,
                     Downstream(from), to, value)

\* Variant: the error is noted and run() goes on.
FailAndContinue(message) == phase' = phase /\ err' = message

\* return Err(..): run() ends.
Fail(message) == phase' = "failed" /\ err' = message

\* ---- actions ----------------------------------------------------------

\* Phase 0: validation of the inputs and creation of the output raster.
Validate ==
    /\ tool = "hillslopes_topaz" /\ phase = "start"
    /\ IF ValidationError # ""
       THEN Fail(ValidationError) /\ UNCHANGED subwta
       ELSE /\ phase' = "links" /\ err' = ""
            /\ subwta' = [cell \in Cells |-> LowValue]
    /\ UNCHANGED <<tool, written, rotVars, runVars, gridVars, traceVars, links, next_id, queue,
                   last_pop, scan, fill_start, current, found_topaz_id>>

\* Phase 1: build the links.
BuildLinks ==
    /\ tool = "hillslopes_topaz" /\ phase = "links"
    /\ links' = LinksBuilt.links
    /\ IF LinksBuilt.err # "" THEN Fail(LinksBuilt.err)
       ELSE phase' = "inflows" /\ err' = ""
    /\ UNCHANGED <<tool, written, rotVars, runVars, gridVars, traceVars, next_id, queue, last_pop,
                   subwta, scan, fill_start, current, found_topaz_id>>

\* Phase 2: resolve the inflow references.
ResolveInflows ==
    /\ tool = "hillslopes_topaz" /\ phase = "inflows"
    /\ IF TooManyInflows(links)
       THEN Fail("Link has more than 3 inflows") /\ UNCHANGED links
       ELSE phase' = "outlet" /\ err' = "" /\ links' = InflowsResolved(links)
    /\ UNCHANGED <<tool, written, rotVars, runVars, gridVars, traceVars, next_id, queue, last_pop,
                   subwta, scan, fill_start, current, found_topaz_id>>

\* Phase 3, lines 812-831: number the outlet link and start the queue.
NumberOutlet ==
    /\ tool = "hillslopes_topaz" /\ phase = "outlet"
    /\ LET outlet_idx == OutletSearch(links)
       IN  IF outlet_idx = -1
           THEN Fail("No outlet link found") /\ UNCHANGED <<links, next_id, queue>>
           ELSE /\ phase' = "assign" /\ err' = ""
                /\ links' = [links EXCEPT ![outlet_idx + 1].topaz_id = 24]
                /\ next_id' = 24 + 10
                /\ queue' = <<outlet_idx>>
    /\ UNCHANGED <<tool, written, rotVars, runVars, gridVars, traceVars, last_pop, subwta, scan,
                   fill_start, current, found_topaz_id>>

\* Phase 3, one iteration of `while let Some(link_idx) = queue.pop_front()`.
AssignStep ==
    /\ tool = "hillslopes_topaz" /\ phase = "assign" /\ queue # <<>>
    /\ LET link_idx == Head(queue)
           link == LinkAt(links, link_idx)
       IN  /\ last_pop' = link_idx
           /\ IF link.is_headwater
              THEN /\ queue' = Tail(queue)
                   /\ UNCHANGED <<phase, err, links, next_id>>
              ELSE IF link.inflow0_id = -1 \/ link.inflow1_id = -1
              THEN /\ Fail("Link does not have two inflows")
                   /\ queue' = Tail(queue)
                   /\ UNCHANGED <<links, next_id>>
              ELSE LET order == InflowOrder(links, link)
                   IN  /\ links' = Numbered(links, order, next_id)
                       /\ next_id' = next_id + 10 * Len(order)
                       /\ queue' = Tail(queue) \o order
                       /\ UNCHANGED <<phase, err>>
    /\ UNCHANGED <<tool, written, rotVars, runVars, gridVars, traceVars, subwta, scan,
                   fill_start, current, found_topaz_id>>

\* Phase 4: the queue is empty; stamp the channels into the output raster.
StampChannels ==
    /\ tool = "hillslopes_topaz" /\ phase = "assign" /\ queue = <<>>
    /\ LET stamped == StampLinks(subwta, links, 1)
       IN  /\ subwta' = stamped.grid
           /\ IF stamped.err # "" THEN Fail(stamped.err)
              ELSE phase' = "fill_scan" /\ err' = ""
    /\ UNCHANGED <<tool, written, rotVars, runVars, gridVars, traceVars, links, next_id, queue,
                   last_pop, scan, fill_start, current, found_topaz_id>>

\* Phase 5: the double loop moves to the next watershed cell that holds no
\* value and starts its flood fill; with none left, Phase 6 and the writing
\* of the outputs follow.
FillNext ==
    /\ tool = "hillslopes_topaz" /\ phase = "fill_scan"
    /\ LET todo == {i \in scan .. rows * columns - 1 :
                       watershed[CellAt(i)] = 1 /\ subwta[CellAt(i)] = LowValue}
           i == CHOOSE k \in todo : \A j \in todo : k <= j
       IN  IF todo = {}
           THEN /\ phase' = "write"
                /\ scan' = rows * columns
                /\ UNCHANGED <<fill_start, current, found_topaz_id>>
           ELSE /\ phase' = "fill_walk"
                /\ scan' = i + 1
                /\ fill_start' = CellAt(i)
                /\ current' = CellAt(i)
                /\ found_topaz_id' = 0
    /\ UNCHANGED <<tool, written, rotVars, runVars, gridVars, traceVars, err, links, next_id,
                   queue, last_pop, subwta>>

\* Phase 5: one iteration of `while found_topaz_id == 0.0`.
FillStep ==
    /\ tool = "hillslopes_topaz" /\ phase = "fill_walk"
    /\ LET c == DirOf(current)
           n == Downstream(current)
       IN  IF ~InBounds(n[1], n[2]) \/ watershed[n] # 1
           THEN /\ phase' = "fill_back"
                /\ UNCHANGED <<err, current, found_topaz_id>>
           ELSE IF subwta[n] = LowValue
           THEN /\ current' = n
                /\ UNCHANGED <<phase, err, found_topaz_id>>
           ELSE LET label == LabelFrom(n, c)
                IN  IF label = -1
                    THEN Fail("Invalid hillslope ID") /\ UNCHANGED <<current, found_topaz_id>>
                    ELSE IF label = -2
                    THEN Fail("panic: index out of bounds")
                         /\ UNCHANGED <<current, found_topaz_id>>
                    ELSE /\ found_topaz_id' = label
                         /\ current' = n
                         /\ phase' = IF label # 0 THEN "fill_back" ELSE "fill_walk"
                         /\ err' = err
    /\ UNCHANGED <<tool, written, rotVars, runVars, gridVars, traceVars, links, next_id, queue,
                   last_pop, subwta, scan, fill_start>>

\* Phase 5: after the while loop, stamp the walked path with the value found.
FillBacktrack ==
    /\ tool = "hillslopes_topaz" /\ phase = "fill_back"
    /\ subwta' = IF found_topaz_id # 0
                 THEN Backtracked(subwta, fill_start, current, found_topaz_id)
                 ELSE subwta
    /\ phase' = "fill_scan"
    /\ UNCHANGED <<tool, written, rotVars, runVars, gridVars, traceVars, err, links, next_id, queue,
                   last_pop, scan, fill_start, current, found_topaz_id>>

\* Phase 6 and the writing of netw.tsv and the output raster: Ok(()).
WriteOutputs ==
    /\ tool = "hillslopes_topaz" /\ phase = "write"
    /\ phase' = "done"
    /\ written' = written \cup {"netw", "subwta"}
    /\ UNCHANGED <<tool, rotVars, runVars, gridVars, traceVars, err, links, next_id, queue,
                   last_pop, subwta, scan, fill_start, current, found_topaz_id>>

(***************************************************************************)
(* Values of the variables a behaviour does not use.                       *)
(***************************************************************************)

IdleRot ==
    /\ rot_in = <<0, 0, 0, 0, 0, 0>>
    /\ rot_out = <<>>

IdleGrids ==
    /\ rows = 0 /\ columns = 0
    /\ esri_style = FALSE
    /\ pntr = <<>> /\ streams = <<>> /\ watershed = <<>> /\ chnjnt = <<>>
    /\ pour_point = NoCell

IdleTopaz ==
    /\ phase = "idle" /\ err = ""
    /\ links = <<>> /\ next_id = 0 /\ queue = <<>> /\ last_pop = -1
    /\ subwta = <<>> /\ scan = 0
    /\ fill_start = NoCell /\ current = NoCell /\ found_topaz_id = 0

\* FindOutlet::run is not running; a trace, if any, starts at `cell`.
IdleRunAt(cell) ==
    /\ run = "idle" /\ requested = <<>> /\ candidates = <<>> /\ next_cand = 0
    /\ start = cell /\ start_offset = 0 /\ selected = <<>> /\ attempts = <<>>

IdleRun == IdleRunAt(NoCell)

IdleTrace ==
    /\ use_mask = FALSE /\ mode = "none"
    /\ trow = -1 /\ tcol = -1
    /\ visited = {} /\ steps = 0 /\ has_left_mask = FALSE
    /\ tresult = "idle" /\ treason = "" /\ outlet = NoCell /\ decoded = {}

(***************************************************************************)
(* Specification SpecRot: calculate_rotation_degrees applied to points     *)
(* with integer coordinates in 0 .. MaxCoord.                              *)
(***************************************************************************)

MaxCoord == 2

Coords == 0 .. MaxCoord

InitRot ==
    /\ tool = "rotation"
    /\ rot_in \in Coords \X Coords \X Coords \X Coords \X Coords \X Coords
    /\ rot_out = <<>>
    /\ written = {}
    /\ IdleGrids /\ IdleTopaz /\ IdleTrace /\ IdleRun

\* The call calculate_rotation_degrees(a_x, a_y, o_x, o_y, b_x, b_y).
Rotate ==
    /\ tool = "rotation"
    /\ rot_out = <<>>
    /\ rot_out' = <<calculate_rotation_degrees(rot_in[1], rot_in[2], rot_in[3],
                                               rot_in[4], rot_in[5], rot_in[6])>>
    /\ UNCHANGED <<tool, written, rot_in, runVars, gridVars, topazVars, traceVars>>

NextRot == Rotate

SpecRot == InitRot /\ [][NextRot]_vars

\* Vector OA and OB of the call.
VecA == <<rot_in[1] - rot_in[3], rot_in[2] - rot_in[4]>>
VecB == <<rot_in[5] - rot_in[3], rot_in[6] - rot_in[4]>>

\* v turned clockwise by a quarter turn, in the x-right / y-up plane the
\* function's documentation and tests use: (1, 0) -> (0, -1).
Clockwise90(v) == <<v[2], -v[1]>>

\* C6: calculate_rotation_degrees returns the clockwise angle from OA to OB:
\* 0, 90 or 180 degrees when OB is OA turned clockwise by 0, 90 or 180 degrees
\* (A-O = (1,0), B-O = (0,-1) gives 90), for every origin O.
C6_ClockwiseAngle ==
    (rot_out # <<>> /\ VecA # <<0, 0>>) =>
        /\ (VecB = VecA => rot_out[1] = 0)
        /\ (VecB = Clockwise90(VecA) => rot_out[1] = 90 * Micro)
        /\ (VecB = Clockwise90(Clockwise90(VecA)) => rot_out[1] = 180 * Micro)

MaxTraceHeads == 2

\* Pointer values that are not codes: zero, a value between the codes, a
\* value beyond the table.
BadPointers == {0, 3, 129}

\* No alteration, or the cell above the foot of the main channel holding a
\* bad value.
Alterations(t) ==
    {<<NoCell, 0>>}
    \cup ({<<MainChannel(t)[1] - 1, MainChannel(t)[2]>>} \X BadPointers)

\* The cell above the foot of the main channel pointing back north, which
\* closes a 2-cell pointer cycle with the cell above it.
LoopAlterations(t, esri) ==
    {<<<<MainChannel(t)[1] - 1, MainChannel(t)[2]>>, Encode(esri, 7)>>}

Altered(p, alt) == IF alt[1] = NoCell THEN p ELSE [p EXCEPT ![alt[1]] = alt[2]]

\* The state at the call of trace_flow_path, with up to max_heads channel heads.
InitTraceWith(max_heads) ==
    /\ tool = "find_outlet"
    /\ \E t \in Terrains, esri \in BOOLEAN :
       \E heads \in SubsetsUpTo(TerrainCells(t), max_heads),
          alt \in Alterations(t) \cup LoopAlterations(t, esri),
          from \in TerrainCells(t) :
          /\ rows = Len(t) /\ columns = Len(t[1])
          /\ esri_style = esri
          /\ pntr = Altered(PntrOf(t, esri), alt)
          /\ streams = StreamsOf(t, heads)
          /\ trow = from[1] /\ tcol = from[2]
          /\ IdleRunAt(from)
          /\ \E opt \in WatershedOptions \cup {"none"} :
                /\ use_mask = (opt # "none")
                /\ watershed = IF opt = "none" THEN <<>> ELSE WatershedOf(t, opt)
    /\ mode \in IF use_mask THEN {"requested", "watershed"} ELSE {"requested"}
    /\ chnjnt = <<>> /\ pour_point = NoCell
    /\ visited = {} /\ steps = 0 /\ has_left_mask = FALSE
    /\ tresult = "called" /\ treason = "" /\ outlet = NoCell /\ decoded = {}
    /\ written = {}
    /\ IdleRot /\ IdleTopaz

InitTrace == InitTraceWith(MaxTraceHeads)

NextTrace == TraceCall \/ TraceStep

\* C1: a pointer value in 1..128 that is none of the 8 codes is never decoded
\* to a neighbour offset: the trace never steps from such a cell (it fails
\* there with the unsupported-pointer reason instead).
C1_InvalidCodeNeverDecoded ==
    \A cell \in decoded : pntr[cell] \in ValidCodes

SpecTrace == InitTrace /\ [][NextTrace]_vars

(***************************************************************************)
(* Specification SpecTopaz: one run of HillslopesTopaz on a terrain, with  *)
(* streams flowing from up to MaxHeads channel heads, the junction raster  *)
(* of StreamJunctions, and a pour point on the main channel.               *)
(***************************************************************************)

MaxHeads == 3

InitTopaz ==
    /\ tool = "hillslopes_topaz"
    /\ \E t \in Terrains, esri \in BOOLEAN, opt \in WatershedOptions :
       \E heads \in SubsetsUpTo(TerrainCells(t), MaxHeads), pp \in PourCandidates(t) :
          /\ rows = Len(t) /\ columns = Len(t[1])
          /\ esri_style = esri
          /\ pntr = PntrOf(t, esri)
          /\ streams = StreamsOf(t, heads)
          /\ watershed = WatershedOf(t, opt)
          /\ chnjnt = StreamJunctionsOf(PntrOf(t, esri), StreamsOf(t, heads), esri,
                                        TerrainCells(t))
          /\ pour_point = pp
    /\ phase = "start" /\ err = ""
    /\ links = <<>> /\ next_id = 0 /\ queue = <<>> /\ last_pop = -1
    /\ subwta = <<>> /\ scan = 0
    /\ fill_start = NoCell /\ current = NoCell /\ found_topaz_id = 0
    /\ written = {}
    /\ IdleRot /\ IdleTrace /\ IdleRun

NextTopaz ==
    \/ Validate \/ BuildLinks \/ ResolveInflows \/ NumberOutlet \/ AssignStep
    \/ StampChannels \/ FillNext \/ FillStep \/ FillBacktrack \/ WriteOutputs

SpecTopaz == InitTopaz /\ [][NextTopaz]_vars

\* The links of the current list that are flagged is_outlet (1-based positions).
OutletLinks == {i \in 1 .. Len(links) : links[i].is_outlet}

\* Phase 3 has numbered the outlet (every phase after NumberOutlet succeeded).
OutletNumbered == phase \in {"assign", "fill_scan", "fill_walk", "fill_back", "write", "done"}

\* C2: a link flagged is_outlet gets identifier 24 whatever its index in the
\* link list, and "No outlet link found" is returned only when no link is
\* flagged is_outlet.
C2_OutletGets24 ==
    /\ OutletNumbered => \A i \in OutletLinks : links[i].topaz_id = 24
    /\ err = "No outlet link found" => OutletLinks = {}

\* The run has returned Ok(()).
Succeeded == phase = "done" /\ err = ""

\* Link j flows into link i: it ends where link i starts.
FlowsInto(j, i) == j # i /\ ~links[i].is_headwater /\ links[j].ds = links[i].us

\* Breadth-first depth of link i from the outlet link.
RECURSIVE Depth(_, _)
Depth(i, fuel) ==
    LET below == {j \in 1 .. Len(links) : FlowsInto(i, j)}
    IN  IF links[i].is_outlet \/ fuel = 0 \/ below = {} THEN 0
        ELSE 1 + Depth(CHOOSE j \in below : TRUE, fuel - 1)

\* C3: after a successful run every link has an identifier 24 + 10k, no two
\* links share one, an inflow's identifier is greater than that of the link
\* it flows into, and a link at a greater breadth-first depth from the outlet
\* has a greater identifier than every link at a smaller depth.
C3_IdentifierScheme ==
    Succeeded =>
        \A i \in 1 .. Len(links) :
            /\ \E k \in 0 .. Len(links) : links[i].topaz_id = 24 + 10 * k
            /\ \A j \in 1 .. Len(links) :
                  /\ (j # i => links[j].topaz_id # links[i].topaz_id)
                  /\ (FlowsInto(j, i) => links[j].topaz_id > links[i].topaz_id)
                  /\ (Depth(j, Len(links)) > Depth(i, Len(links))
                         => links[j].topaz_id > links[i].topaz_id)

\* C3 witness: a successful run on a network with links at depth 2.
C3_Witness ==
    /\ Succeeded
    /\ \E i \in 1 .. Len(links) : Depth(i, Len(links)) >= 2

\* The inflow slots of a link that are set, in slot order.
InflowSlots(link) ==
    IF link.inflow2_id = -1 THEN <<link.inflow0_id, link.inflow1_id>>
    ELSE <<link.inflow0_id, link.inflow1_id, link.inflow2_id>>

\* The last iteration of the queue loop dequeued a link and numbered its inflows.
JustNumbered ==
    /\ phase = "assign" /\ last_pop # -1
    /\ ~LinkAt(links, last_pop).is_headwater

\* The entries that iteration pushed to the back of the queue.
Enqueued ==
    LET n == Len(InflowSlots(LinkAt(links, last_pop)))
    IN  SubSeq(queue, Len(queue) - n + 1, Len(queue))

\* The entries pushed are the inflows of the dequeued link, numbered
\* next, next + 10, (next + 20) in the order they were pushed.
ConsecutiveIds ==
    LET n == Len(InflowSlots(LinkAt(links, last_pop)))
    IN  /\ {Enqueued[k] : k \in 1 .. n}
             = {InflowSlots(LinkAt(links, last_pop))[k] : k \in 1 .. n}
        /\ \A k \in 1 .. n :
              LinkAt(links, Enqueued[k]).topaz_id = next_id - 10 * (n - k + 1)

\* The angle as the specification words it: at the link's downstream
\* endpoint, from the vector to the link's upstream endpoint to the vector to
\* the inflow's upstream endpoint, clockwise on the map.
DownstreamOriginAngle(link, inflow) ==
    calculate_rotation_degrees(link.us[1], -link.us[2],
                               link.ds[1], -link.ds[2],
                               inflow.us[1], -inflow.us[2])

\* C4 as stated: the inflows of a dequeued link get consecutive identifiers,
\* and are enqueued, in ascending order of the angle measured at the link's
\* downstream endpoint.
C4_OrderAtDownstreamEnd ==
    JustNumbered =>
        /\ ConsecutiveIds
        /\ \A k, m \in 1 .. Len(Enqueued) :
              k < m => DownstreamOriginAngle(LinkAt(links, last_pop), LinkAt(links, Enqueued[k]))
                         <= DownstreamOriginAngle(LinkAt(links, last_pop), LinkAt(links, Enqueued[m]))

\* v turned clockwise on the map by a quarter turn, v = (rows down, columns
\* right): north (-1, 0) -> east (0, 1) -> south (1, 0) -> west (0, -1).
MapClockwise90(v) == <<v[2], -v[1]>>

\* A positive multiple of the vector v.
Along(w, v) == \E k \in 1 .. rows + columns : w = <<k * v[1], k * v[2]>>

\* The unit step of a vector that runs along a row, a column or a diagonal.
UnitOf(v) == <<IF v[1] > 0 THEN 1 ELSE IF v[1] < 0 THEN -1 ELSE 0,
               IF v[2] > 0 THEN 1 ELSE IF v[2] < 0 THEN -1 ELSE 0>>

\* C4, amended: the angle is measured at the link's upstream endpoint (the
\* junction), clockwise on the map from the vector to the link's downstream
\* endpoint to the vector to the inflow's upstream endpoint.  The inflows get
\* consecutive identifiers, and are enqueued, in ascending order of that
\* angle; with two inflows a quarter turn and three quarter turns clockwise
\* of the downstream vector, the quarter-turn one gets the next identifier.
C4_OrderAtUpstreamEnd ==
    JustNumbered =>
        LET link == LinkAt(links, last_pop)
            down == <<link.ds[1] - link.us[1], link.ds[2] - link.us[2]>>
            To(i) == <<LinkAt(links, i).us[1] - link.us[1],
                       LinkAt(links, i).us[2] - link.us[2]>>
        IN  /\ ConsecutiveIds
            /\ \A k, m \in 1 .. Len(Enqueued) :
                  k < m => InflowAngle(link, LinkAt(links, Enqueued[k]))
                             <= InflowAngle(link, LinkAt(links, Enqueued[m]))
            /\ \A x, y \in {Enqueued[k] : k \in 1 .. Len(Enqueued)} :
                  (/\ Len(Enqueued) = 2
                   /\ Along(down, UnitOf(down))
                   /\ Along(To(x), MapClockwise90(UnitOf(down)))
                   /\ Along(To(y), MapClockwise90(MapClockwise90(MapClockwise90(UnitOf(down))))))
                  => /\ InflowAngle(link, LinkAt(links, x)) = 90 * Micro
                     /\ InflowAngle(link, LinkAt(links, y)) = 270 * Micro
                     /\ Enqueued = <<x, y>>

\* C4 witness: a link with inflows a quarter turn and three quarter turns
\* clockwise of its downstream vector was dequeued and its inflows numbered.
C4_Witness ==
    /\ JustNumbered
    /\ Len(Enqueued) = 2
    /\ InflowAngle(LinkAt(links, last_pop), LinkAt(links, Enqueued[1])) = 90 * Micro
    /\ InflowAngle(LinkAt(links, last_pop), LinkAt(links, Enqueued[2])) = 270 * Micro

\* C5: of two inflows of a link with equal rotation angles, the one in the
\* lower slot gets the lower identifier and is enqueued first, for two and for
\* three inflows.
C5_TiesByEncounterOrder ==
    JustNumbered =>
        LET link == LinkAt(links, last_pop)
            slots == InflowSlots(link)
        IN  \A s, t \in 1 .. Len(slots) :
               (s < t /\ InflowAngle(link, LinkAt(links, slots[s]))
                          = InflowAngle(link, LinkAt(links, slots[t])))
               => /\ LinkAt(links, slots[s]).topaz_id < LinkAt(links, slots[t]).topaz_id
                  /\ \E k, m \in 1 .. Len(Enqueued) :
                        k < m /\ Enqueued[k] = slots[s] /\ Enqueued[m] = slots[t]

\* The stream cells of the streams raster.
StreamCells == {cell \in Cells : streams[cell] > 0}

\* The stream network is one straight single-direction channel without
\* confluences that ends at the pour point, inside the watershed.
StraightChannel ==
    /\ pour_point \in StreamCells
    /\ \A x \in StreamCells :
          /\ DirOf(x) = DirOf(pour_point)
          /\ chnjnt[x] \in {0, 1}
          /\ watershed[x] = 1 \/ \E k \in 1 .. rows + columns :
                                    x = <<pour_point[1] + k * dy(DirOf(pour_point)),
                                          pour_point[2] + k * dx(DirOf(pour_point))>>
    /\ Cardinality({x \in StreamCells : chnjnt[x] = 0}) = 1
    /\ watershed[pour_point] = 1
    /\ LET n == Downstream(pour_point)
       IN  ~InBounds(n[1], n[2]) \/ watershed[n] # 1

\* The side of the channel's flow line a cell lies on: the sign of the cross
\* product of the channel direction and the vector from the pour point.
SideOf(cell) ==
    dx(DirOf(pour_point)) * (cell[1] - pour_point[1])
        - dy(DirOf(pour_point)) * (cell[2] - pour_point[2])

\* The run has returned, with Ok or Err.
Returned == phase \in {"done", "failed"}

\* C8: on a straight single-direction channel without confluences that ends
\* at the pour point the run succeeds, every watershed cell off the channel is
\* stamped channel id - 1 or channel id - 2, and the two values lie on opposite
\* sides of the channel's flow line.
C8_StraightChannelBanks ==
    (StraightChannel /\ Returned) =>
        /\ Succeeded
        /\ Len(links) = 1
        /\ \A cell \in Cells :
              (watershed[cell] = 1 /\ cell \notin StreamCells)
              => subwta[cell] \in {links[1].topaz_id - 1, links[1].topaz_id - 2}
        /\ \A x, y \in Cells :
              (/\ subwta[x] = links[1].topaz_id - 1
               /\ subwta[y] = links[1].topaz_id - 2)
              => SideOf(x) * SideOf(y) < 0

\* The cells of the links' paths.
ChannelCells ==
    {cell \in Cells : \E i \in 1 .. Len(links) :
                         \E k \in 1 .. Len(links[i].path) : links[i].path[k] = cell}

\* The D8 flow path from a cell reaches a channel cell without leaving the
\* watershed or the raster.
RECURSIVE ReachesChannel(_, _)
ReachesChannel(cell, fuel) ==
    IF cell \in ChannelCells THEN TRUE
    ELSE IF fuel = 0 THEN FALSE
    ELSE LET n == Downstream(cell)
         IN  /\ InBounds(n[1], n[2])
             /\ watershed[n] = 1
             /\ ReachesChannel(n, fuel - 1)

\* C9: after a successful run no watershed cell whose flow path reaches a
\* channel cell inside the watershed is left at the background value.
C9_EveryDrainingCellStamped ==
    Succeeded =>
        \A cell \in Cells :
            (watershed[cell] = 1 /\ ReachesChannel(cell, rows * columns))
            => subwta[cell] # LowValue

\* The walk from an unstamped cell to the first labelled cell: the pair of
\* the last unstamped cell and the labelled cell, <<NoCell, NoCell>> if the
\* walk leaves the watershed or the raster first.
RECURSIVE FirstLabelled(_, _)
FirstLabelled(cell, fuel) ==
    LET n == Downstream(cell)
    IN  IF fuel = 0 \/ ~InBounds(n[1], n[2]) THEN <<NoCell, NoCell>>
        ELSE IF watershed[n] # 1 THEN <<NoCell, NoCell>>
        ELSE IF subwta[n] # LowValue THEN <<cell, n>>
        ELSE FirstLabelled(n, fuel - 1)

\* The cells from `from` down to, and including, `to`.
RECURSIVE WalkedCells(_, _, _)
WalkedCells(from, to, fuel) ==
    IF from = to \/ fuel = 0 THEN {from}
    ELSE {from} \cup WalkedCells(Downstream(from), to, fuel - 1)

\* The value C10 states for a walk whose last step, of direction v, leads
\* from `last` to the labelled cell L; 0 where it states none (cross = 0).
StatedLabel(last, L) ==
    LET vx == dx(DirOf(last))
        vy == dy(DirOf(last))
        ux == dx(DirOf(L))
        uy == dy(DirOf(L))
        cross == ux * vy - uy * vx
    IN  IF subwta[L] % 10 <= 3 THEN subwta[L]
        ELSE IF chnjnt[L] = 0 THEN subwta[L] - 3
        ELSE IF cross > 0 THEN subwta[L] - 2
        ELSE IF cross < 0 THEN subwta[L] - 1
        ELSE 0

\* C10: the flood fill from an unstamped watershed cell takes the value of the
\* first labelled cell L its walk meets: L's value for a hillslope cell,
\* channel id - 3 for a headwater channel cell, else channel id - 2 or - 1 by
\* the sign of cross = ux*vy - uy*vx; and stamps every walked cell with it.
C10_FloodFillLabel ==
    [][(phase = "fill_back" /\ FirstLabelled(fill_start, rows * columns)[2] # NoCell)
       => LET meet == FirstLabelled(fill_start, rows * columns)
              label == StatedLabel(meet[1], meet[2])
          IN  label # 0 =>
                 /\ found_topaz_id = label
                 /\ \A cell \in WalkedCells(fill_start, meet[1], rows * columns) :
                       subwta'[cell] = label]_vars

\* C10 witness: a fill that walked two or more cells to the bank of a channel
\* cell below the channel head has stamped its start.
C10_Witness ==
    /\ phase = "fill_scan" /\ found_topaz_id # 0
    /\ fill_start # NoCell
    /\ Downstream(fill_start) # current
    /\ subwta[fill_start] = found_topaz_id
    /\ subwta[current] % 10 = 4 /\ chnjnt[current] > 0

\* The channel cells immediately upstream of a channel cell.
UpstreamChannelCells(n) == {up \in ChannelCells : up # n /\ Downstream(up) = n}

\* The walk is about to enter the labelled, non-headwater channel cell n in
\* that cell's own downstream direction, and the flow direction of every
\* channel cell immediately upstream of n tells the two banks apart.
ColinearEntry(n) ==
    /\ phase = "fill_walk"
    /\ n = Downstream(current)
    /\ InBounds(n[1], n[2]) /\ watershed[n] = 1
    /\ subwta[n] # LowValue /\ subwta[n] % 10 = 4
    /\ chnjnt[n] # 0
    /\ Cross(DirOf(n), DirOf(current)) = 0
    /\ UpstreamChannelCells(n) # {}
    /\ \A up \in UpstreamChannelCells(n) : Cross(DirOf(up), DirOf(current)) # 0

\* C11: a colinear entry into a non-headwater channel cell is labelled id - 2
\* or id - 1 by the cross-product test with the flow direction of the channel
\* cell immediately upstream, whatever that cell's junction count, and the
\* walk ends there.
C11_ColinearTieBreak ==
    [][\A n \in Cells :
          ColinearEntry(n) =>
             /\ phase' = "fill_back"
             /\ \E up \in UpstreamChannelCells(n) :
                   LET cross == dx(DirOf(up)) * dy(DirOf(current))
                                   - dy(DirOf(up)) * dx(DirOf(current))
                   IN  found_topaz_id' = IF cross > 0 THEN subwta[n] - 2
                                         ELSE subwta[n] - 1]_vars

\* Phase 1 has completed without error.
LinksComplete ==
    phase \in {"inflows", "outlet", "assign", "fill_scan", "fill_walk", "fill_back",
               "write", "done"}

RECURSIVE FlowsTo(_, _, _)
FlowsTo(from, to, fuel) ==
    IF from = to THEN TRUE
    ELSE IF fuel = 0 THEN FALSE
    ELSE LET n == Downstream(from)
         IN  /\ InBounds(n[1], n[2])
             /\ watershed[n] = 1
             /\ FlowsTo(n, to, fuel - 1)

C13_LoopDetected ==
    [][/\ steps' <= Cardinality(visited')
       /\ (tresult = "running" /\ <<trow, tcol>> \in visited)
             => (tresult' = "err" /\ treason' = "loop")]_vars

\* C13 witness: a trace that walked round a pointer cycle of non-accepting
\* cells has failed with the loop reason.
C13_Witness ==
    /\ tresult = "err" /\ treason = "loop"
    /\ steps >= 2
    /\ <<trow, tcol>> \in visited

(***************************************************************************)
(* Specification SpecTraceLive: SpecTrace with the loop of trace_flow_path *)
(* running on: a call that can take a step takes it.                       *)
(***************************************************************************)

MaxLiveHeads == 1

InitTraceLive == InitTraceWith(MaxLiveHeads)

NextTraceLive == TraceCall \/ TraceStep

SpecTraceLive == InitTraceLive /\ [][NextTraceLive]_vars /\ WF_vars(NextTraceLive)

\* The call has returned Ok or Err.
TraceReturned == tresult \in {"ok", "err"}

\* C14: every call of trace_flow_path returns, with success or failure, and
\* never takes more than 4 * rows * columns steps.
C14_TerminatesWithinBudget ==
    /\ <>TraceReturned
    /\ [](steps <= 4 * rows * columns)

\* C14 witness: a trace has returned after walking the longest flow path of
\* the terrain.
C14_Witness ==
    /\ TraceReturned
    /\ steps >= rows

\* C15: on every success return, in both start modes, the outlet returned is
\* in raster bounds, is a stream cell and has junction count exactly 1.
C15_OutletIsAcceptingCell ==
    tresult = "ok" =>
        /\ InBounds(outlet[1], outlet[2])
        /\ streams[outlet] # Nodata /\ streams[outlet] > 0
        /\ junction_counts(outlet) = 1

\* C15 witness: a trace has returned a cell other than a stream cell it had
\* to pass because of its junction count.
C15_Witness ==
    /\ tresult = "ok"
    /\ steps >= 1
    /\ \E cell \in visited : IsStream(cell) /\ junction_counts(cell) # 1

\* The path has been outside the watershed mask by the time it is at `cell`.
LeftMaskBy(cell) == \E c \in visited \cup {cell} : Mask(c) = 0

\* C16 as stated: in watershed-candidate mode a trace succeeds at a cell only
\* when the path has left the mask by that cell.
C16_SuccessOnlyOutsideMask ==
    (tresult = "ok" /\ mode = "watershed") => LeftMaskBy(outlet)

\* The step from a cell leaves the raster or the watershed mask.
StepLeaves(cell) ==
    LET dir == pntr_matches_fo(esri_style, pntr[cell])
        nr == cell[1] + dy(dir)
        nc == cell[2] + dx(dir)
    IN  ~InBounds(nr, nc) \/ Mask(<<nr, nc>>) = 0

\* C16, amended: in watershed-candidate mode a trace succeeds at a cell only
\* when the path has left the mask by that cell or the step from that cell
\* leaves the mask or the raster.
C16_SuccessOnlyAtOrBeyondExit ==
    (tresult = "ok" /\ mode = "watershed") =>
        LeftMaskBy(outlet) \/ StepLeaves(outlet)

\* C16 witness: a candidate trace passed a stream cell with junction count 1
\* inside the mask and returned the last cell before the mask's edge.
C16_Witness ==
    /\ tresult = "ok" /\ mode = "watershed"
    /\ ~LeftMaskBy(outlet)
    /\ \E cell \in visited \ {outlet} : IsStream(cell) /\ junction_counts(cell) = 1

(***************************************************************************)
(* Specification SpecOutlet: one run of FindOutlet, with a requested       *)
(* row/col, a watershed raster, or both.                                   *)
(***************************************************************************)

MaxOutletHeads == 1

\* Requested locations: none, the foot of the main channel, the cell above
\* it, the raster's first cell, and a row/col outside the raster.
RequestedOptions(t) ==
    {<<>>, <<MainChannel(t)>>, <<<<MainChannel(t)[1] - 1, MainChannel(t)[2]>>>>,
     <<<<0, 0>>>>, <<<<-1, Len(t[1]) + 1>>>>}

InitOutlet ==
    /\ tool = "find_outlet"
    /\ \E t \in Terrains, esri \in BOOLEAN :
       \E heads \in SubsetsUpTo(TerrainCells(t), MaxOutletHeads),
          alt \in Alterations(t) \cup LoopAlterations(t, esri),
          opt \in WatershedOptions \cup {"none"},
          req \in RequestedOptions(t) :
          /\ opt # "none" \/ req # <<>>
          /\ rows = Len(t) /\ columns = Len(t[1])
          /\ esri_style = esri
          /\ pntr = Altered(PntrOf(t, esri), alt)
          /\ streams = StreamsOf(t, heads)
          /\ use_mask = (opt # "none")
          /\ watershed = IF opt = "none" THEN <<>> ELSE WatershedOf(t, opt)
          /\ requested = req
    /\ chnjnt = <<>> /\ pour_point = NoCell
    /\ mode = "none" /\ trow = -1 /\ tcol = -1
    /\ visited = {} /\ steps = 0 /\ has_left_mask = FALSE
    /\ tresult = "idle" /\ treason = "" /\ outlet = NoCell /\ decoded = {}
    /\ run = "start" /\ candidates = <<>> /\ next_cand = 0
    /\ start = NoCell /\ start_offset = 0 /\ selected = <<>> /\ attempts = <<>>
    /\ written = {}
    /\ IdleRot /\ IdleTopaz

NextOutlet ==
    \/ TryRequested \/ RequestedReturned \/ NextCandidate \/ CandidateReturned
    \/ TraceCall \/ TraceStep

SpecOutlet == InitOutlet /\ [][NextOutlet]_vars

\* run() has returned: an outlet was selected, or the error was returned.
RunReturned == run \in {"selected", "failed"}

\* The requested row/col lies in the raster, holds a valid pointer code and
\* is a stream cell with junction count 1.
RequestedAccepting ==
    /\ requested # <<>>
    /\ InBounds(requested[1][1], requested[1][2])
    /\ pntr[requested[1]] \in ValidCodes
    /\ streams[requested[1]] # Nodata /\ streams[requested[1]] > 0
    /\ junction_counts(requested[1]) = 1

\* C17: a requested row/col in the raster that holds a valid pointer code and
\* is a stream cell with junction count 1 is selected as the outlet, with 0
\* steps taken and a start offset of 0 cells, with or without a mask.
C17_RequestedCellSelected ==
    (RequestedAccepting /\ run \notin {"start", "requested_trace"}) =>
        /\ run = "selected"
        /\ selected # <<>>
        /\ selected[1].outlet = requested[1]
        /\ selected[1].start = requested[1]
        /\ selected[1].steps_taken = 0
        /\ selected[1].start_offset_cells = 0
        /\ selected[1].start_mode = "requested"

\* C17 witness: the run has returned for an accepting requested cell, with a
\* watershed mask supplied.
C17_Witness ==
    /\ RequestedAccepting /\ RunReturned
    /\ use_mask

\* The calls of trace_flow_path for watershed candidates, in call order.
CandidateAttempts == SelectSeq(attempts, LAMBDA a : a.mode = "watershed")

RECURSIVE DrainsTo(_, _, _)
DrainsTo(cell, x, fuel) ==
    IF cell = x THEN TRUE
    ELSE IF fuel = 0 \/ pntr[cell] \notin ValidCodes THEN FALSE
    ELSE LET dir == pntr_matches_fo(esri_style, pntr[cell])
             n == <<cell[1] + dy(dir), cell[2] + dx(dir)>>
         IN  /\ InBounds(n[1], n[2])
             /\ Mask(n) = 1
             /\ DrainsTo(n, x, fuel - 1)

\* The mask cells: a full square block of the raster.
MaskIsSquare ==
    LET inside == {cell \in Cells : Mask(cell) = 1}
        rs == {cell[1] : cell \in inside}
        cs == {cell[2] : cell \in inside}
    IN  /\ inside # {}
        /\ inside = rs \X cs
        /\ Cardinality(rs) = Cardinality(cs)
        /\ \A r \in rs : r + 1 \in rs \/ \A q \in rs : q <= r
        /\ \A c \in cs : c + 1 \in cs \/ \A q \in cs : q <= c

\* A square mask crossed by a single stream that leaves it through the cell
\* x, of junction count 1, with every mask cell draining to x.
SingleStreamExit(x) ==
    /\ use_mask /\ MaskIsSquare
    /\ Mask(x) = 1 /\ IsStream(x) /\ junction_counts(x) = 1
    /\ pntr[x] \in ValidCodes /\ StepLeaves(x)
    /\ \A cell \in Cells :
          Mask(cell) = 1 =>
             /\ DrainsTo(cell, x, rows * columns)
             /\ IsStream(cell) => junction_counts(cell) <= 1

\* C19: on a square mask crossed by a single stream that leaves it through
\* one cell of junction count 1, with every mask cell draining to that
\* stream, the candidate trace from any mask cell returns that exit cell.
C19_ExitCellFromEveryCandidate ==
    \A x \in Cells :
        (/\ mode = "watershed" /\ TraceReturned
         /\ Mask(start) = 1
         /\ SingleStreamExit(x))
        => tresult = "ok" /\ outlet = x

\* C19 witness: a candidate trace from a cell off the stream has walked down
\* the stream, past a cell of junction count 1, to the exit cell.
C19_Witness ==
    /\ mode = "watershed" /\ TraceReturned
    /\ \E x \in Cells : SingleStreamExit(x) /\ outlet = x
    /\ ~IsStream(start)
    /\ \E cell \in visited \ {outlet} : IsStream(cell) /\ junction_counts(cell) = 1

\* The in-bounds 8-neighbours of a cell that are stream cells and whose
\* pointer, decoded, steps onto the cell.
Inflowing(cell) ==
    {n \in Cells :
        /\ n # cell
        /\ IsStream(n)
        /\ pntr[n] \in ValidCodes
        /\ LET dir == pntr_matches_fo(esri_style, pntr[n])
           IN  <<n[1] + dy(dir), n[2] + dx(dir)>> = cell}

Decoders == {"find_outlet", "hillslopes_topaz"}

decode(which, esri, code) ==
    IF which = "find_outlet" THEN pntr_matches_fo(esri, code)
    ELSE pntr_matches_ht(esri, code)

\* C21: in the encoding of the run (either one) and in both tools the 8 valid
\* codes decode one-to-one onto the offset indices 0..7, and the inflow value
\* of offset n decodes to the opposite offset, so a neighbour at offset n
\* holding inflow[n] steps onto the centre cell.
C21_CodecInverse ==
    \A which \in Decoders, esri \in {esri_style} :
        /\ {decode(which, esri, c) : c \in ValidCodes} = 0 .. 7
        /\ \A c1, c2 \in ValidCodes :
              decode(which, esri, c1) = decode(which, esri, c2) => c1 = c2
        /\ \A n \in 0 .. 7 :
              /\ inflowing_vals(esri, n) \in ValidCodes
              /\ dx(decode(which, esri, inflowing_vals(esri, n))) = -dx(n)
              /\ dy(decode(which, esri, inflowing_vals(esri, n))) = -dy(n)

\* C21 witness: a finished run in the Esri encoding with a link whose path
\* steps from a cell at offset n of the next cell, holding inflow[n].
C21_Witness ==
    /\ tool = "hillslopes_topaz" /\ phase = "done" /\ err = "" /\ esri_style
    /\ \E i \in 1 .. Len(links) : \E k \in 1 .. Len(links[i].path) - 1 : \E n \in 0 .. 7 :
          LET a == links[i].path[k]
              b == links[i].path[k + 1]
          IN  /\ a = <<b[1] + dy(n), b[2] + dx(n)>>
              /\ pntr[a] = inflowing_vals(esri_style, n)
              /\ chnjnt[b] >= 1

(***************************************************************************)
(* Specification SpecTopazAny: one run of HillslopesTopaz on input rasters *)
(* that need not agree with each other: the pointer raster or the junction *)
(* raster may differ in one cell from the terrain and from the census of   *)
(* the streams.                                                            *)
(***************************************************************************)

MaxAnyHeads == 4

\* The cells channel heads are drawn from: the two upper rows and (2, 0).
HeadCandidates(t) == {cell \in TerrainCells(t) : cell[1] <= 1} \cup {<<2, 0>>}

\* Pointer values that are not codes: zero, a value between the codes, the
\* nodata value, a negative value, a value beyond the table.
BadPointersTopaz == {0, 3, Nodata, -1, 129}

\* A hillslope-side cell whose pointer, turned west, closes a 2-cell cycle
\* with its western neighbour, and the foot of the main channel.
PointerAlterCells(t) ==
    {IF t = TerrainA THEN <<0, 1>> ELSE <<1, 1>>, MainChannel(t)}

PointerAlterations(t, esri) ==
    PointerAlterCells(t) \X (BadPointersTopaz \cup {Encode(esri, 5)})

\* One cell of the junction raster, on the main channel, holding any count.
JunctionAlterations(t) ==
    {<<1, MainChannel(t)[2]>>, <<2, MainChannel(t)[2]>>} \X (0 .. 4)

\* The state at the start of run(), with up to max_heads channel heads and
\* an alteration of one of the given kinds, or none.
InitTopazWith(max_heads, kinds) ==
    /\ tool = "hillslopes_topaz"
    /\ \E t \in Terrains, esri \in BOOLEAN, opt \in WatershedOptions :
       \E heads \in SubsetsUpTo(HeadCandidates(t), max_heads), pp \in PourCandidates(t),
          alt \in {<<"none", <<NoCell, 0>>>>}
                  \cup ({"pntr"} \cap kinds) \X PointerAlterations(t, esri)
                  \cup ({"chnjnt"} \cap kinds) \X JunctionAlterations(t) :
          /\ rows = Len(t) /\ columns = Len(t[1])
          /\ esri_style = esri
          /\ pntr = IF alt[1] = "pntr" THEN Altered(PntrOf(t, esri), alt[2])
                    ELSE PntrOf(t, esri)
          /\ streams = StreamsOf(t, heads)
          /\ watershed = WatershedOf(t, opt)
          /\ chnjnt = LET census == StreamJunctionsOf(PntrOf(t, esri), StreamsOf(t, heads),
                                                      esri, TerrainCells(t))
                      IN  IF alt[1] = "chnjnt" THEN Altered(census, alt[2]) ELSE census
          /\ pour_point = pp
    /\ phase = "start" /\ err = ""
    /\ links = <<>> /\ next_id = 0 /\ queue = <<>> /\ last_pop = -1
    /\ subwta = <<>> /\ scan = 0
    /\ fill_start = NoCell /\ current = NoCell /\ found_topaz_id = 0
    /\ written = {}
    /\ IdleRot /\ IdleTrace /\ IdleRun

InitTopazAny == InitTopazWith(MaxAnyHeads, {"pntr", "chnjnt"})

SpecTopazAny == InitTopazAny /\ [][NextTopaz]_vars

\* The links that end at the upstream endpoint of a link.
EndingAt(link) == {j \in 1 .. Len(links) : links[j].ds = link.us}

\* C22: in identifier assignment a dequeued headwater link assigns no
\* identifier and enqueues nothing; a dequeued non-headwater link with fewer
\* than two inflows makes the run return the fatal error there, no further
\* identifier being assigned; and a run that has returned an error does
\* nothing more.
C22_QueueLoop ==
    [][/\ (phase = "assign" /\ queue # <<>>) =>
            LET link == LinkAt(links, Head(queue))
            IN  /\ link.is_headwater =>
                      /\ links' = links /\ next_id' = next_id
                      /\ queue' = Tail(queue)
                      /\ phase' = "assign" /\ err' = ""
                /\ (~link.is_headwater /\ Cardinality(EndingAt(link)) < 2) =>
                      /\ phase' = "failed"
                      /\ err' = "Link does not have two inflows"
                      /\ links' = links /\ next_id' = next_id
       /\ phase = "failed" => UNCHANGED vars]_vars

\* C22 witness: the run failed on a dequeued non-headwater link with fewer
\* than two inflows, after links other than the outlet had been numbered.
C22_Witness ==
    /\ tool = "hillslopes_topaz" /\ phase = "failed"
    /\ err = "Link does not have two inflows"
    /\ last_pop >= 0
    /\ ~LinkAt(links, last_pop).is_headwater
    /\ Cardinality(EndingAt(LinkAt(links, last_pop))) < 2
    /\ next_id > 34
    /\ \E i \in 1 .. Len(links) : links[i].is_headwater /\ links[i].topaz_id > 24

\* No identifier has been assigned.
NothingAssigned == next_id = 0 /\ \A i \in 1 .. Len(links) : links[i].topaz_id = 0

\* run() has returned an Err.
ReturnedError == phase = "failed" /\ err \notin {"", "panic: index out of bounds"}

\* Link building is over.
LinksKnown == phase \notin {"start", "links"} /\ ~(phase = "failed" /\ links = <<>>)

\* C23: a junction raster holding a non-nodata value above 3 makes the run
\* return an error in validation, and four or more links ending at the
\* upstream endpoint of a non-headwater link make it return an error in
\* inflow resolution at the latest, in both cases with no identifier
\* assigned; on a successful run every link has at most 3 inflows.
C23_InflowLimit ==
    /\ (\E cell \in Cells : chnjnt[cell] # Nodata /\ chnjnt[cell] > 3) =>
          /\ phase = "start" \/ ReturnedError
          /\ links = <<>> /\ NothingAssigned
    /\ (/\ LinksKnown
        /\ \E i \in 1 .. Len(links) :
              ~links[i].is_headwater /\ Cardinality(EndingAt(links[i])) >= 4) =>
          /\ phase = "inflows" \/ ReturnedError
          /\ NothingAssigned
    /\ phase = "done" =>
          \A i \in 1 .. Len(links) :
             /\ Cardinality({k \in {links[i].inflow0_id, links[i].inflow1_id,
                                   links[i].inflow2_id} : k # -1}) <= 3
             /\ ~links[i].is_headwater => Cardinality(EndingAt(links[i])) <= 3

\* C23 witness: link building completed with four links ending at the
\* upstream endpoint of a non-headwater link, on a junction raster without a
\* value above 3, and the run returned the error of inflow resolution.
C23_Witness ==
    /\ tool = "hillslopes_topaz" /\ ReturnedError
    /\ err = "Link has more than 3 inflows"
    /\ \A cell \in Cells : chnjnt[cell] <= 3
    /\ \E i \in 1 .. Len(links) :
          ~links[i].is_headwater /\ Cardinality(EndingAt(links[i])) >= 4

\* The watershed cells whose pointer value is none of the 8 codes.
InvalidPointerCells ==
    {cell \in Cells : watershed[cell] # Nodata /\ pntr[cell] \notin ValidCodes}

\* C24: a cell of the watershed whose pointer value is none of the 8 codes
\* makes the run return the 'Invalid D8 pointer value' error before link
\* building starts (the junction raster being valid, which is checked
\* first); the run never aborts abnormally on such a value.
C24_InvalidPointerRejected ==
    (/\ tool = "hillslopes_topaz"
     /\ InvalidPointerCells # {}
     /\ \A cell \in Cells : chnjnt[cell] = Nodata \/ chnjnt[cell] <= 3)
    => \/ phase = "start"
       \/ /\ phase = "failed" /\ err = "Invalid D8 pointer value"
          /\ links = <<>>

(***************************************************************************)
(* Specification SpecOutputs: one run of either tool, from its inputs to   *)
(* the writing of its output files.                                        *)
(***************************************************************************)

InitOutputs == InitOutlet \/ InitTopazAny

NextOutputs == NextOutlet \/ WriteGeoJson \/ NextTopaz

SpecOutputs == InitOutputs /\ [][NextOutputs]_vars

\* C25: a run of FindOutlet or HillslopesTopaz that returned an error has
\* written no output file, and a file is written only by a run all of whose
\* phases succeeded (an outlet selected; the flood fill completed).
C25_NoPartialOutput ==
    /\ (tool = "hillslopes_topaz" /\ phase = "failed") => written = {}
    /\ (tool = "find_outlet" /\ run = "failed") => written = {}
    /\ written # {} =>
          \/ /\ tool = "hillslopes_topaz" /\ phase = "done" /\ err = ""
             /\ scan = rows * columns
             /\ written = {"netw", "subwta"}
          \/ /\ tool = "find_outlet" /\ run = "written" /\ selected # <<>>
             /\ attempts # <<>> /\ attempts[Len(attempts)].ok
             /\ written = {"outlet_geojson"}

\* C25 witness: FindOutlet returned its error after every candidate trace
\* had failed, and nothing was written.
C25_Witness ==
    /\ tool = "find_outlet" /\ run = "failed" /\ written = {}
    /\ Len(attempts) >= 2
    /\ \A k \in 1 .. Len(attempts) : ~attempts[k].ok

\* b is the cell one D8 step from a along the pointer a holds.
D8Step(a, b) ==
    /\ pntr[a] \in ValidCodes
    /\ LET dir == pntr_matches_ht(esri_style, pntr[a])
       IN  b = <<a[1] + dy(dir), a[2] + dx(dir)>>

\* C26: the path of every link starts at its upstream endpoint and ends at
\* its downstream endpoint, each consecutive pair of its cells is one D8 step
\* along the earlier cell's pointer, and no cell strictly between the
\* endpoints has junction count >= 2 or is the pour point.
C26_LinkPaths ==
    tool = "hillslopes_topaz" =>
    \A i \in 1 .. Len(links) :
        LET path == links[i].path
        IN  /\ Len(path) >= 1
            /\ path[1] = links[i].us
            /\ path[Len(path)] = links[i].ds
            /\ \A k \in 1 .. Len(path) - 1 : D8Step(path[k], path[k + 1])
            /\ \A k \in 2 .. Len(path) - 1 :
                  /\ chnjnt[path[k]] < 2
                  /\ path[k] # pour_point

\* C26 witness: link building produced a link from a confluence with a cell
\* strictly between its endpoints, and a headwater link ending at that
\* confluence.
C26_Witness ==
    /\ tool = "hillslopes_topaz" /\ phase = "inflows" /\ err = ""
    /\ \E i, j \in 1 .. Len(links) :
          /\ ~links[i].is_headwater /\ Len(links[i].path) >= 3
          /\ chnjnt[links[i].us] >= 2
          /\ links[j].is_headwater /\ links[j].ds = links[i].us
          /\ Len(links[j].path) >= 2

\* The flood fill (Phase 5) is under way.
Filling == tool = "hillslopes_topaz" /\ phase \in {"fill_scan", "fill_walk", "fill_back"}

\* C27: a step of the hillslope flood fill never changes a cell of the
\* output raster that already holds a value, and never stamps a cell outside
\* the watershed mask.
C27_FloodFillFrame ==
    [][Filling =>
          \A cell \in Cells :
             /\ subwta[cell] # LowValue => subwta'[cell] = subwta[cell]
             /\ subwta'[cell] # subwta[cell] => watershed[cell] = 1]_vars

\* C27 witness: a backtrack has just stamped a walk of two or more cells
\* that ended on a channel cell, with cells outside the watershed left at
\* the background value.
C27_Witness ==
    /\ tool = "hillslopes_topaz" /\ phase = "fill_scan" /\ found_topaz_id > 0
    /\ fill_start # NoCell /\ current # NoCell
    /\ subwta[fill_start] = found_topaz_id
    /\ Downstream(fill_start) # current
    /\ subwta[Downstream(fill_start)] = found_topaz_id
    /\ subwta[current] % 10 = 4
    /\ \E cell \in Cells : watershed[cell] # 1 /\ subwta[cell] = LowValue

(***************************************************************************)
(* Specification SpecTopazLive: a run on a terrain with two channel heads   *)
(* at most, whose pointer raster may differ from the terrain in one cell,  *)
(* with the loop of the flood-fill walk always taking its next iteration.  *)
(***************************************************************************)

MaxLiveTopazHeads == 2

InitTopazLive == InitTopazWith(MaxLiveTopazHeads, {"pntr"})

SpecTopazLive == InitTopazLive /\ [][NextTopaz]_vars /\ WF_vars(FillStep)

\* C28: the downstream walk of the flood fill, started from any unstamped
\* watershed cell of a validated input, always ends.
C28_FloodFillWalkEnds ==
    (tool = "hillslopes_topaz" /\ phase = "fill_walk") ~> (phase # "fill_walk")

\* C29: trace_flow_path never returns the 'exceeded maximum step count'
\* failure: the steps taken never outnumber the cells visited, so the trace
\* ends otherwise before the count reaches 4 * rows * columns.
C29_StepBudgetNeverExceeded ==
    tool = "find_outlet" =>
       /\ treason # "exceeded maximum step count"
       /\ steps <= Cardinality(visited)
       /\ steps < 4 * rows * columns

\* C29 witness: a trace has returned after five steps, the longest walk of
\* the raster, a quarter of the budget still unused.
C29_Witness ==
    /\ tool = "find_outlet" /\ TraceReturned
    /\ steps >= 5 /\ steps = Cardinality(visited)
    /\ treason # "exceeded maximum step count"

\* C30: during and after the flood fill every cell of the output raster
\* that is not background holds a value >= 21 whose last digit is 1, 2, 3 or
\* 4, and the 'Invalid hillslope ID' error is never returned.
C30_OutputValues ==
    tool = "hillslopes_topaz" =>
       /\ err # "Invalid hillslope ID"
       /\ (Filling \/ phase \in {"write", "done"}) =>
             \A cell \in Cells :
                subwta[cell] # LowValue =>
                   subwta[cell] >= 21 /\ subwta[cell] % 10 \in 1 .. 4

\* C30 witness: a finished run whose output raster holds a channel value, a
\* headwater hillslope and both side hillslopes.
C30_Witness ==
    /\ tool = "hillslopes_topaz" /\ phase = "done"
    /\ \A d \in 1 .. 4 : \E cell \in Cells : subwta[cell] > 0 /\ subwta[cell] % 10 = d

====
